---------------------------- MODULE Spec2Model ----------------------------
(***************************************************************************)
(* A model of the promise-based TCP echo server of src/echo_server.ts      *)
(* (lines 29-254): the growable buffer (DynBuf), the message framer        *)
(* (cutMessage), the per-connection wrapper (TCPConn: soInit, soRead,      *)
(* soWrite), the listener wrapper (soListen, soAccept), the connection     *)
(* handler (serveClient) and the accept loop (main).                       *)
(*                                                                         *)
(* JavaScript runs every callback to completion, and the continuation of   *)
(* an await whose promise is settled runs in the microtask queue before    *)
(* the next I/O callback.  One action of the model is therefore one        *)
(* callback of the event loop together with the continuations it wakes,    *)
(* up to the next point where the woken code suspends.                     *)
(***************************************************************************)
EXTENDS Integers, Sequences, FiniteSets, TLC

VARIABLES
    \* ---- the buffer on its own (specification SpecBuf)
    dbuf,       \* a DynBuf: [data: the allocated bytes, size: bytes in use]
    pushed,     \* history: the concatenation of all data given to bufPush
    popped,     \* history: the number of bytes removed by bufPop
    peak,       \* history: the largest size reached so far
    rawPop,     \* history: bufPop was called directly (not through cutMessage)
    ret,        \* the value returned by the last call, when it was cutMessage
    cuts,       \* history: the non-null values returned by cutMessage, in order
    nops,       \* number of operations applied (bounded by MaxOps)
    \* ---- the server (specification Spec)
    listener,   \* TCPListner: [err, accepter]
    mainpc,     \* position of main(): "accept" | "fatal"
    srvErr,     \* history: the last error the server socket emitted
    sock,       \* per connection: the net.Socket as the program sees it
    lconn,      \* per connection: the TCPConn made by soListen's handler
    conn,       \* per connection: the TCPConn made by serveClient
    hpc,        \* per connection: position of serveClient
    buf,        \* per connection: serveClient's DynBuf
    stream,     \* per connection: the bytes the client sends
    wire,       \* per connection: history, the data of every socket.write
    reads,      \* per connection: the value the last soRead resolved with
    hist        \* per connection: history flags and counters

bufVars == <<dbuf, pushed, popped, peak, rawPop, ret, cuts, nops>>
srvVars == <<listener, mainpc, srvErr, sock, lconn, conn, hpc, buf, stream, wire,
             reads, hist>>
vars == <<dbuf, pushed, popped, peak, rawPop, ret, cuts, nops,
          listener, mainpc, srvErr, sock, lconn, conn, hpc, buf, stream, wire,
          reads, hist>>

(***************************************************************************)
(* Bytes.  NL is the delimiter "\n"; Zero is the byte Buffer.alloc fills   *)
(* with.                                                                   *)
(***************************************************************************)
NL == "\n"
Zero == "\\0"
Null == "null"

Max(a, b) == IF a >= b THEN a ELSE b

Zeros(n) == [i \in 1..n |-> Zero]

Fill(n) == [i \in 1..n |-> "x"]

(***************************************************************************)
(* DynBuf                                                                  *)
(***************************************************************************)
MinCap == 32

\* while (cap < newLen) cap *= 2;
RECURSIVE GrowCap(_, _)
GrowCap(cap, newLen) == IF cap < newLen THEN GrowCap(cap * 2, newLen) ELSE cap

\* const buf: DynBuf = { data: Buffer.alloc(0), size: 0 };
EmptyBuf == [data |-> <<>>, size |-> 0]

\* faulty variant: "if (cap < newLen) cap *= 2" in place of the while loop
bufPushGrowsOnce(b, data) ==
    LET newLen == b.size + Len(data)
        grown  == IF newLen > Len(b.data)
                     THEN LET c0  == Max(Len(b.data), MinCap)
                              cap == IF c0 < newLen THEN c0 * 2 ELSE c0
                          IN  b.data \o Zeros(cap - Len(b.data))
                     ELSE b.data
    IN  [data |-> [i \in 1..Len(grown) |->
                      IF i > b.size /\ i <= newLen THEN data[i - b.size]
                      ELSE grown[i]],
         size |-> newLen]

\* faulty variant: "data.copy(buf.data, 0)" in place of data.copy(buf.data, buf.size)
bufPushAtZero(b, data) ==
    LET newLen == b.size + Len(data)
        grown  == IF newLen > Len(b.data)
                     THEN LET cap == GrowCap(Max(Len(b.data), MinCap), newLen)
                          IN  b.data \o Zeros(cap - Len(b.data))
                     ELSE b.data
    IN  [data |-> [i \in 1..Len(grown) |->
                      IF i <= Len(data) THEN data[i] ELSE grown[i]],
         size |-> newLen]

\* lines 94-110: grow by doubling (from at least 32) until newLen fits, copy
\* the old bytes into the zero-filled allocation, then copy data at offset
\* buf.size
bufPush(b, data) ==
    LET newLen == b.size + Len(data)
        grown  == IF newLen > Len(b.data)
                     THEN LET cap == GrowCap(Max(Len(b.data), MinCap), newLen)
                          IN  b.data \o Zeros(cap - Len(b.data))
                     ELSE b.data
    IN  [data |-> [i \in 1..Len(grown) |->
                      IF i > b.size /\ i <= newLen THEN data[i - b.size]
                      ELSE grown[i]],
         size |-> newLen]

\* faulty variant: bufPop without copyWithin, only buf.size -= len
bufPopNoShift(b, len) == [data |-> b.data, size |-> b.size - len]

\* lines 112-115: buf.data.copyWithin(0, len, buf.size); buf.size -= len;
bufPop(b, len) ==
    [data |-> [i \in 1..Len(b.data) |->
                  IF i <= b.size - len THEN b.data[i + len] ELSE b.data[i]],
     size |-> b.size - len]

\* faulty variant: buf.data.indexOf("\n"), the search not limited to the
\* used region
IndexOfNLWholeData(b) ==
    LET hits == {i \in 1..Len(b.data) : b.data[i] = NL}
    IN  IF hits = {} THEN -1
        ELSE (CHOOSE i \in hits : \A j \in hits : i <= j) - 1

\* buf.data.subarray(0, buf.size).indexOf("\n"): 0-based, -1 when absent
IndexOfNL(b) ==
    LET hits == {i \in 1..b.size : b.data[i] = NL}
    IN  IF hits = {} THEN -1
        ELSE (CHOOSE i \in hits : \A j \in hits : i <= j) - 1

\* faulty variant: the message is copied without its delimiter (subarray(0, idx))
cutMessageDropsDelimiter(b) ==
    LET idx == IndexOfNL(b)
    IN  IF idx < 0 THEN [found |-> FALSE, msg |-> <<>>, buf |-> b]
        ELSE [found |-> TRUE, msg |-> SubSeq(b.data, 1, idx),
              buf |-> bufPop(b, idx + 1)]

\* lines 117-132.  found = FALSE stands for the null return; buf is the
\* buffer after the call.
cutMessage(b) ==
    LET idx == IndexOfNL(b)
    IN  IF idx < 0 THEN [found |-> FALSE, msg |-> <<>>, buf |-> b]
        ELSE [found |-> TRUE, msg |-> SubSeq(b.data, 1, idx + 1),
              buf |-> bufPop(b, idx + 1)]

(***************************************************************************)
(* The buffer on its own: bufPush, bufPop and cutMessage applied in any    *)
(* order to the buffer serveClient starts with.                            *)
(***************************************************************************)
MaxOps == 5

\* the data given to bufPush: empty, short with and without delimiters, and
\* long enough to force one or two doublings in a single call
PushData ==
    { <<>>, <<"x">>, <<"x", NL>>, <<NL, "y", NL>>,
      Fill(MinCap + 1), Fill(2 * MinCap + 1) \o <<NL>> }

\* the lengths given to bufPop, within its precondition 0 <= len <= size
PopLens(size) == {n \in {0, 1, MinCap + 1, size} : 0 <= n /\ n <= size}

NoRet == [called |-> FALSE, found |-> FALSE, msg |-> <<>>]

InitBuf ==
    /\ dbuf = EmptyBuf
    /\ pushed = <<>>
    /\ popped = 0
    /\ peak = 0
    /\ rawPop = FALSE
    /\ ret = NoRet
    /\ cuts = <<>>
    /\ nops = 0

BufPush(data) ==
    /\ nops < MaxOps
    /\ dbuf' = bufPush(dbuf, data)
    /\ pushed' = pushed \o data
    /\ peak' = Max(peak, dbuf'.size)
    /\ ret' = NoRet
    /\ nops' = nops + 1
    /\ UNCHANGED <<popped, rawPop, cuts>>
    /\ UNCHANGED srvVars

BufPop(len) ==
    /\ nops < MaxOps
    /\ dbuf' = bufPop(dbuf, len)
    /\ popped' = popped + len
    /\ rawPop' = TRUE
    /\ ret' = NoRet
    /\ nops' = nops + 1
    /\ UNCHANGED <<pushed, peak, cuts>>
    /\ UNCHANGED srvVars

BufCut ==
    /\ nops < MaxOps
    /\ LET r == cutMessage(dbuf)
       IN  /\ dbuf' = r.buf
           /\ ret' = [called |-> TRUE, found |-> r.found, msg |-> r.msg]
           /\ cuts' = IF r.found THEN Append(cuts, r.msg) ELSE cuts
           /\ popped' = popped + Len(r.msg)
    /\ nops' = nops + 1
    /\ UNCHANGED <<pushed, peak, rawPop>>
    /\ UNCHANGED srvVars

(***************************************************************************)
(* TCPConn: the wrapper of one socket                                      *)
(***************************************************************************)
Errors == {"ECONNRESET", "EPIPE"}

\* lines 60-65: the object soInit returns.  reader is TRUE when the slot
\* holds the resolve/reject pair of a suspended soRead.
soInit == [err |-> Null, ended |-> FALSE, reader |-> FALSE]

\* a socket the server has not seen yet; an accepted socket starts paused
\* (pauseOnConnect, line 206).  pos counts the bytes delivered so far, eof
\* and errd whether the socket has emitted "end" / "error", writing whether
\* the callback of a socket.write is outstanding.
NoSocket ==
    [open |-> FALSE, flowing |-> FALSE, destroyed |-> FALSE, eof |-> FALSE,
     errd |-> FALSE, writing |-> FALSE, pos |-> 0]

\* faulty variant: the "data" handler without socket.pause()
dataHandlerNoPause(s, k) ==
    [sock |-> s, conn |-> [k EXCEPT !.reader = FALSE], resolved |-> k.reader]

\* lines 67-71: socket.pause(); conn.reader?.resolve(data); conn.reader = null
dataHandler(s, k) ==
    [sock |-> [s EXCEPT !.flowing = FALSE],
     conn |-> [k EXCEPT !.reader = FALSE],
     resolved |-> k.reader]

\* faulty variant: the "end" handler resolves the reader without setting
\* conn.ended
endHandlerNoFlag(k) ==
    [conn |-> [k EXCEPT !.reader = FALSE], resolved |-> k.reader]

\* faulty variant: the "end" handler resolves the reader and leaves it in
\* the slot
endHandlerKeepsReader(k) ==
    [conn |-> [k EXCEPT !.ended = TRUE], resolved |-> k.reader]

\* lines 73-79: conn.ended = true; a pending reader is resolved with ""
endHandler(k) ==
    [conn |-> [k EXCEPT !.ended = TRUE, !.reader = FALSE],
     resolved |-> k.reader]

\* faulty variant: the "error" handler rejects the reader without recording
errorHandlerNoRecord(k, e) ==
    [conn |-> [k EXCEPT !.reader = FALSE], rejected |-> k.reader]

\* lines 81-87: conn.err = err; a pending reader is rejected with err
errorHandler(k, e) ==
    [conn |-> [k EXCEPT !.err = e, !.reader = FALSE],
     rejected |-> k.reader]

\* faulty variant: soRead registers the reader and resumes the socket
\* before it tests conn.err and conn.ended
soReadRegistersFirst(k) ==
    IF k.err # Null
    THEN [res |-> "reject", err |-> k.err, data |-> <<>>,
          conn |-> [k EXCEPT !.reader = TRUE], resume |-> TRUE]
    ELSE IF k.ended
    THEN [res |-> "resolve", err |-> Null, data |-> <<>>,
          conn |-> [k EXCEPT !.reader = TRUE], resume |-> TRUE]
    ELSE [res |-> "pending", err |-> Null, data |-> <<>>,
          conn |-> [k EXCEPT !.reader = TRUE], resume |-> TRUE]

\* faulty variant: soRead without the conn.err test
soReadNoErr(k) ==
    IF k.ended
    THEN [res |-> "resolve", err |-> Null, data |-> <<>>, conn |-> k,
          resume |-> FALSE]
    ELSE [res |-> "pending", err |-> Null, data |-> <<>>,
          conn |-> [k EXCEPT !.reader = TRUE], resume |-> TRUE]

\* faulty variant: soRead without the conn.ended test
soReadNoEof(k) ==
    IF k.err # Null
    THEN [res |-> "reject", err |-> k.err, data |-> <<>>, conn |-> k,
          resume |-> FALSE]
    ELSE [res |-> "pending", err |-> Null, data |-> <<>>,
          conn |-> [k EXCEPT !.reader = TRUE], resume |-> TRUE]

\* lines 136-151.  res is what the promise does inside the call: "reject"
\* (with err), "resolve" (with data = "", the EOF value) or "pending" (the
\* reader is registered and the socket resumed).
soRead(k) ==
    IF k.err # Null
    THEN [res |-> "reject", err |-> k.err, data |-> <<>>, conn |-> k,
          resume |-> FALSE]
    ELSE IF k.ended
    THEN [res |-> "resolve", err |-> Null, data |-> <<>>, conn |-> k,
          resume |-> FALSE]
    ELSE [res |-> "pending", err |-> Null, data |-> <<>>,
          conn |-> [k EXCEPT !.reader = TRUE], resume |-> TRUE]

\* lines 153-165.  "reject" (with conn.err) inside the call, or "pending":
\* socket.write was called and its callback settles the promise.
soWrite(k) ==
    IF k.err # Null
    THEN [res |-> "reject", err |-> k.err, write |-> FALSE]
    ELSE [res |-> "pending", err |-> Null, write |-> TRUE]

(***************************************************************************)
(* serveClient                                                             *)
(***************************************************************************)
Quit == <<"q", "u", "i", "t", NL>>
Bye == <<"B", "y", "e", NL>>
EchoPrefix == <<"E", "c", "h", "o", ":", " ">>

\* history of one connection; waiting is the number of soReads that were
\* registered (line 148) less the number of readers the handlers settled,
\* overlap whether a soRead was called with the reader slot occupied or a
\* write unacknowledged, overwrote whether the soAccept that followed this
\* connection was called with the accepter slot occupied
NoHist ==
    [sinceResume |-> 0, acked |-> 0, destroyedAt |-> 0, eofReads |-> 0,
     fastFails |-> 0, sockErr |-> Null, errBeforeEnd |-> FALSE,
     afterSrvErr |-> FALSE, waiting |-> 0, overlap |-> FALSE,
     overwrote |-> FALSE]

\* the state of one call of serveClient and of what it owns.  pc is where
\* the call stands: "none" (not called), "read" / "write" / "bye" (suspended
\* in the await of lines 180, 198, 191), "done" (returned), "failed" (threw:
\* its promise is rejected).
NoTask ==
    [pc |-> "none", conn |-> soInit, buf |-> EmptyBuf, sock |-> NoSocket,
     wire |-> <<>>, reads |-> <<>>, hist |-> NoHist]

\* lines 194-197
echoReply(msg) == EchoPrefix \o msg

\* lines 176-200, one pass of the loop from its top to the next await that
\* suspends, or to the end of the call.
serveLoop(t) ==
    LET r == cutMessage(t.buf)
    IN  IF ~r.found
        THEN LET rd == soRead(t.conn)
                 ov == t.hist.overlap \/ t.conn.reader \/ t.sock.writing
             IN  CASE rd.res = "reject" ->
                        [t EXCEPT !.pc = "failed", !.conn = rd.conn,
                                  !.sock.flowing = @ \/ rd.resume,
                                  !.hist.fastFails = @ + 1,
                                  !.hist.overlap = ov]
                   [] rd.res = "resolve" ->
                        [t EXCEPT !.pc = "done", !.conn = rd.conn,
                                  !.sock.flowing = @ \/ rd.resume,
                                  !.hist.eofReads = @ + 1,
                                  !.buf = bufPush(t.buf, rd.data),
                                  !.reads = rd.data,
                                  !.hist.overlap = ov]
                   [] rd.res = "pending" ->
                        [t EXCEPT !.pc = "read", !.conn = rd.conn,
                                  !.sock.flowing = TRUE,
                                  !.hist.sinceResume = 0,
                                  !.hist.waiting = @ + 1,
                                  !.hist.overlap = ov]
        ELSE LET isQuit == r.msg = Quit
                 data   == IF isQuit THEN Bye ELSE echoReply(r.msg)
                 w      == soWrite(t.conn)
             IN  IF w.res = "reject"
                 THEN [t EXCEPT !.pc = "failed", !.buf = r.buf,
                                !.sock.writing = @ \/ w.write,
                                !.wire = IF w.write THEN Append(@, data) ELSE @,
                                !.hist.fastFails = @ + 1]
                 ELSE [t EXCEPT !.pc = IF isQuit THEN "bye" ELSE "write",
                                !.buf = r.buf,
                                !.sock.writing = TRUE,
                                !.wire = Append(@, data)]

\* faulty variant: the loop reads before it frames: a chunk is pushed and
\* the next soRead issued without cutting what the buffer holds
afterReadReadsFirst(t, data) ==
    LET t1 == [t EXCEPT !.buf = bufPush(t.buf, data),
                        !.reads = data]
        rd == soRead(t1.conn)
    IN  IF Len(data) = 0 THEN [t1 EXCEPT !.pc = "done"]
        ELSE IF rd.res = "pending"
        THEN [t1 EXCEPT !.pc = "read", !.conn = rd.conn,
                        !.sock.flowing = TRUE,
                        !.hist.sinceResume = 0,
                        !.hist.waiting = @ + 1]
        ELSE serveLoop(t1)

\* faulty variant: the echo's soWrite is not awaited, the loop goes on at
\* once
afterReadWriteNotAwaited(t, data) ==
    LET t1 == [t EXCEPT !.buf = bufPush(t.buf, data),
                        !.reads = data]
        t2 == serveLoop(t1)
    IN  IF Len(data) = 0 THEN [t1 EXCEPT !.pc = "done"]
        ELSE IF t2.pc = "write" THEN serveLoop(t2) ELSE t2

\* lines 180-187: the continuation of "await soRead" with the chunk read
afterRead(t, data) ==
    LET t1 == [t EXCEPT !.buf = bufPush(t.buf, data),
                        !.reads = data]
    IN  IF Len(data) = 0 THEN [t1 EXCEPT !.pc = "done"] ELSE serveLoop(t1)

\* faulty variant: socket.destroy() left out after the write of Bye
afterWriteNoDestroy(t) == serveLoop(t)

\* lines 191-192 and 198: the continuation of "await soWrite"
afterWrite(t) ==
    IF t.pc = "bye"
    THEN serveLoop([t EXCEPT !.sock.destroyed = TRUE,
                             !.hist.destroyedAt = Len(t.wire)])
    ELSE serveLoop(t)

(***************************************************************************)
(* TCPListner and main                                                     *)
(***************************************************************************)
\* lines 208-212, followed by the first soAccept of main (line 247): main
\* runs up to its first await before any event is delivered
soListen == [err |-> Null, accepter |-> FALSE]

\* lines 230-239
soAccept(l) ==
    IF l.err # Null
    THEN [res |-> "reject", err |-> l.err, listener |-> l]
    ELSE [res |-> "pending", err |-> Null,
          listener |-> [l EXCEPT !.accepter = TRUE]]

\* faulty variant: main without its loop: one connection is accepted and no
\* further soAccept is called
mainLoopOnce(l, t) == [listener |-> l, pc |-> "served", overwrote |-> FALSE]

\* faulty variant: "await serveClient(conn.socket)": the loop goes on to its
\* next soAccept only when the handler has finished
mainLoopAwaitsHandler(l, t) ==
    IF t.pc \in {"done", "failed"}
    THEN [listener |-> soAccept(l).listener,
          pc |-> IF soAccept(l).res = "reject" THEN "fatal" ELSE "accept",
          overwrote |-> l.accepter]
    ELSE [listener |-> l, pc |-> "serving", overwrote |-> FALSE]

\* lines 246-249: after serveClient(conn.socket) has returned its promise
\* (t is the handler's state at that point), the loop calls soAccept again
mainLoop(l, t) ==
    [listener |-> soAccept(l).listener,
     pc |-> IF soAccept(l).res = "reject" THEN "fatal" ELSE "accept",
     overwrote |-> l.accepter]

(***************************************************************************)
(* The clients.  A client's byte stream is up to MaxMsgs complete messages *)
(* followed by an unterminated tail; the transport cuts it into chunks of  *)
(* any size.                                                               *)
(***************************************************************************)
Conns == {"c1", "c2"}

MaxMsgs == 2

Msgs == {<<"x", NL>>, Quit, <<NL>>, <<"q", "u", "i", "t", "x", NL>>}
Tails == {<<>>, <<"q", "u">>}

RECURSIVE MsgSeqs(_)
MsgSeqs(n) ==
    IF n = 0 THEN {<<>>}
    ELSE MsgSeqs(n - 1) \cup {s \o m : s \in MsgSeqs(n - 1), m \in Msgs}

Streams == {s \o t : s \in MsgSeqs(MaxMsgs), t \in Tails}

\* one client sending any of the streams, the other silent
OneClient == {[c \in Conns |-> IF c = "c1" THEN s ELSE <<>>] : s \in Streams}

\* two clients, each sending one of a few short streams
ShortStreams == {<<"x", NL>>, <<"q", NL, "x">>}
TwoClients == [Conns -> ShortStreams]

\* one client sending nothing, one message, messages with an unterminated
\* rest, or a quit with a message behind it
LiveStreams ==
    { <<>>, <<"x", NL>>, <<"x", NL, NL, "q", "u">>, Quit \o <<"x", NL>> }
LiveClient ==
    {[c \in Conns |-> IF c = "c1" THEN s ELSE <<>>] : s \in LiveStreams}

Task(c) ==
    [pc |-> hpc[c], conn |-> conn[c], buf |-> buf[c], sock |-> sock[c],
     wire |-> wire[c], reads |-> reads[c], hist |-> hist[c]]

SetTask(c, t) ==
    /\ hpc' = [hpc EXCEPT ![c] = t.pc]
    /\ conn' = [conn EXCEPT ![c] = t.conn]
    /\ buf' = [buf EXCEPT ![c] = t.buf]
    /\ sock' = [sock EXCEPT ![c] = t.sock]
    /\ wire' = [wire EXCEPT ![c] = t.wire]
    /\ reads' = [reads EXCEPT ![c] = t.reads]
    /\ hist' = [hist EXCEPT ![c] = t.hist]

InitSrv(streams) ==
    /\ listener = soAccept(soListen).listener
    /\ mainpc = "accept"
    /\ srvErr = Null
    /\ sock = [c \in Conns |-> NoSocket]
    /\ lconn = [c \in Conns |-> soInit]
    /\ conn = [c \in Conns |-> soInit]
    /\ hpc = [c \in Conns |-> "none"]
    /\ buf = [c \in Conns |-> EmptyBuf]
    /\ stream \in streams
    /\ wire = [c \in Conns |-> <<>>]
    /\ reads = [c \in Conns |-> <<>>]
    /\ hist = [c \in Conns |-> NoHist]

(***************************************************************************)
(* The events.  What net.Socket and net.Server do is taken as follows:     *)
(*  - "data" is emitted only while the socket is resumed, with the next    *)
(*    bytes of the stream in a chunk of any size, and not after "end";     *)
(*  - "end" is emitted once, after the last byte of the stream, whether or *)
(*    not a read is pending (it can follow the last "data" directly);      *)
(*  - "error" is emitted at most once per socket, at any time; "data" and  *)
(*    "end" may still follow it;                                           *)
(*  - the callback of socket.write reports success or an error, and only   *)
(*    an error when the socket was destroyed before the call;              *)
(*  - a socket the program destroyed emits none of these events;           *)
(*  - the server emits "connection" once per client, also after an         *)
(*    "error" (a failed accept leaves it listening), and "error" any       *)
(*    number of times.                                                     *)
(* A handler whose promise is rejected stays "failed": nothing awaits it   *)
(* (line 248), and what the runtime does with the unhandled rejection is   *)
(* not followed.                                                           *)
(***************************************************************************)
\* lines 214-218: the server's "connection" event.  soInit wraps the socket;
\* a waiting accept is resolved with the wrapper and main goes on (line 248:
\* serveClient wraps the socket again and runs to its first await; then the
\* next soAccept).  With no accept waiting the wrapper is dropped.
Connection(c) ==
    /\ ~sock[c].open
    /\ lconn' = [lconn EXCEPT ![c] = soInit]
    /\ LET s == [sock[c] EXCEPT !.open = TRUE]
       IN  IF listener.accepter
           THEN LET t == serveLoop([Task(c) EXCEPT
                                       !.sock = s, !.conn = soInit,
                                       !.buf = EmptyBuf,
                                       !.hist.afterSrvErr = srvErr # Null])
                    m == mainLoop([listener EXCEPT !.accepter = FALSE], t)
                IN  /\ SetTask(c, [t EXCEPT !.hist.overwrote = m.overwrote])
                    /\ listener' = m.listener
                    /\ mainpc' = m.pc
           ELSE /\ SetTask(c, [Task(c) EXCEPT !.sock = s,
                                               !.hist.afterSrvErr = srvErr # Null])
                /\ UNCHANGED <<listener, mainpc>>
    /\ UNCHANGED <<srvErr, stream>>
    /\ UNCHANGED bufVars

\* faulty variant: the server's "error" handler fails the accept but does
\* not record the error
ListenerErrorNoRecord(e) ==
    /\ listener' = [listener EXCEPT !.accepter = FALSE]
    /\ mainpc' = IF listener.accepter THEN "fatal" ELSE mainpc
    /\ srvErr' = e
    /\ UNCHANGED <<sock, lconn, conn, hpc, buf, stream, wire, reads, hist>>
    /\ UNCHANGED bufVars

\* lines 220-224: the server's "error" event; a rejected accept ends main
\* (line 252 logs it)
ListenerError(e) ==
    /\ listener' = [err |-> e, accepter |-> FALSE]
    /\ mainpc' = IF listener.accepter THEN "fatal" ELSE mainpc
    /\ srvErr' = e
    /\ UNCHANGED <<sock, lconn, conn, hpc, buf, stream, wire, reads, hist>>
    /\ UNCHANGED bufVars

\* the socket's "data" event with the next n bytes of the stream: both
\* wrappers' handlers run (lines 67-71), then the reader's continuation
Data(c, n) ==
    /\ sock[c].open /\ sock[c].flowing
    /\ ~sock[c].destroyed /\ ~sock[c].eof
    /\ n >= 1 /\ sock[c].pos + n <= Len(stream[c])
    /\ LET chunk == SubSeq(stream[c], sock[c].pos + 1, sock[c].pos + n)
           l  == dataHandler(sock[c], lconn[c])
           d  == dataHandler(l.sock, conn[c])
           t1 == [Task(c) EXCEPT !.sock = [d.sock EXCEPT !.pos = @ + n],
                                 !.conn = d.conn,
                                 !.hist.sinceResume = @ + 1,
                                 !.hist.waiting =
                                     IF d.resolved THEN @ - 1 ELSE @]
       IN  /\ lconn' = [lconn EXCEPT ![c] = l.conn]
           /\ SetTask(c, IF d.resolved THEN afterRead(t1, chunk) ELSE t1)
    /\ UNCHANGED <<listener, mainpc, srvErr, stream>>
    /\ UNCHANGED bufVars

\* the socket's "end" event, after the last byte of the stream (lines 73-79)
End(c) ==
    /\ sock[c].open /\ ~sock[c].destroyed /\ ~sock[c].eof
    /\ sock[c].pos = Len(stream[c])
    /\ lconn' = [lconn EXCEPT ![c] = endHandler(lconn[c]).conn]
    /\ LET s == [sock[c] EXCEPT !.eof = TRUE]
       IN  IF hpc[c] = "none"
           THEN SetTask(c, [Task(c) EXCEPT !.sock = s])
           ELSE LET h  == endHandler(conn[c])
                    t1 == [Task(c) EXCEPT !.sock = s, !.conn = h.conn,
                                          !.hist.errBeforeEnd = conn[c].err # Null,
                                          !.hist.waiting =
                                              IF h.resolved THEN @ - 1 ELSE @]
                IN  SetTask(c, IF h.resolved THEN afterRead(t1, <<>>) ELSE t1)
    /\ UNCHANGED <<listener, mainpc, srvErr, stream>>
    /\ UNCHANGED bufVars

\* the socket's "error" event (lines 81-87); a socket emits it once
Error(c, e) ==
    /\ sock[c].open /\ ~sock[c].destroyed /\ ~sock[c].errd
    /\ lconn' = [lconn EXCEPT ![c] = errorHandler(lconn[c], e).conn]
    /\ LET s == [sock[c] EXCEPT !.errd = TRUE]
       IN  IF hpc[c] = "none"
           THEN SetTask(c, [Task(c) EXCEPT !.sock = s, !.hist.sockErr = e])
           ELSE LET h  == errorHandler(conn[c], e)
                    t1 == [Task(c) EXCEPT !.sock = s, !.conn = h.conn,
                                          !.hist.sockErr = e,
                                          !.hist.waiting =
                                              IF h.rejected THEN @ - 1 ELSE @]
                IN  SetTask(c, IF h.rejected THEN [t1 EXCEPT !.pc = "failed"]
                               ELSE t1)
    /\ UNCHANGED <<listener, mainpc, srvErr, stream>>
    /\ UNCHANGED bufVars

\* lines 160-163, the callback of socket.write without an error: the
\* handler goes on after its await
WriteOk(c) ==
    /\ sock[c].writing /\ ~sock[c].destroyed
    /\ SetTask(c, afterWrite([Task(c) EXCEPT !.sock.writing = FALSE,
                                             !.hist.acked = @ + 1]))
    /\ UNCHANGED <<listener, mainpc, srvErr, lconn, stream>>
    /\ UNCHANGED bufVars

\* lines 160-163, the callback of socket.write with an error (the only
\* outcome on a destroyed socket): the handler's await throws
WriteFail(c) ==
    /\ sock[c].writing
    /\ SetTask(c, [Task(c) EXCEPT !.sock.writing = FALSE, !.pc = "failed"])
    /\ UNCHANGED <<listener, mainpc, srvErr, lconn, stream>>
    /\ UNCHANGED bufVars

\* one client served on a listener that stays healthy
Init == InitBuf /\ InitSrv(OneClient)

Next ==
    \/ Connection("c1")
    \/ \E n \in 1..Len(stream["c1"]) : Data("c1", n)
    \/ End("c1")
    \/ \E e \in Errors : Error("c1", e)
    \/ WriteOk("c1")
    \/ WriteFail("c1")

Spec == Init /\ [][Next]_vars

\* one client sending one of a few streams, with the callback of every
\* socket.write called in the end (lines 160-163): net.Socket reports each
\* write as flushed or failed
InitLive == InitBuf /\ InitSrv(LiveClient)

SpecLive ==
    InitLive /\ [][Next]_vars /\ WF_vars(WriteOk("c1") \/ WriteFail("c1"))

\* the listener and both clients
InitTwo == InitBuf /\ InitSrv(TwoClients)

NextSrv ==
    \/ \E c \in Conns : Connection(c)
    \/ \E e \in Errors : ListenerError(e)
    \/ \E c \in Conns : \E n \in 1..Len(stream[c]) : Data(c, n)
    \/ \E c \in Conns : End(c)
    \/ \E c \in Conns, e \in Errors : Error(c, e)
    \/ \E c \in Conns : WriteOk(c)
    \/ \E c \in Conns : WriteFail(c)

SpecSrv == InitTwo /\ [][NextSrv]_vars

\* the buffer alone; the server is left as it starts
InitAlone == InitBuf /\ InitSrv({[c \in Conns |-> <<>>]})

NextBuf ==
    \/ \E data \in PushData : BufPush(data)
    \/ \E len \in PopLens(dbuf.size) : BufPop(len)
    \/ BufCut

SpecBuf == InitAlone /\ [][NextBuf]_vars

(***************************************************************************)
(* Properties                                                              *)
(***************************************************************************)
IsPrefix(a, b) == Len(a) <= Len(b) /\ a = SubSeq(b, 1, Len(a))

\* the complete messages of a byte sequence: it is cut after every NL and
\* what follows the last NL is left out
RECURSIVE Lines(_)
Lines(s) ==
    LET hits == {i \in 1..Len(s) : s[i] = NL}
    IN  IF hits = {} THEN <<>>
        ELSE LET i == CHOOSE i \in hits : \A j \in hits : i <= j
             IN  <<SubSeq(s, 1, i)>> \o Lines(SubSeq(s, i + 1, Len(s)))

\* the bytes of its stream a socket has delivered
Got(c) == SubSeq(stream[c], 1, sock[c].pos)

NoQuit(s) == \A i \in 1..Len(Lines(s)) : Lines(s)[i] # Quit

\* the replies the protocol asks for, one per message
Replies(msgs) ==
    [i \in 1..Len(msgs) |->
        IF msgs[i] = Quit THEN Bye ELSE <<"E", "c", "h", "o", ":", " ">> \o msgs[i]]

\* C1: for a stream without a quit message, however it is cut into chunks,
\* the data given to socket.write are, in order, "Echo: " followed by the
\* message for the complete messages delivered so far, each once: never
\* anything else, and all of them, acknowledged, whenever the handler is
\* suspended in a read or has returned.
C1_EchoReplies ==
    \A c \in Conns :
        NoQuit(stream[c]) =>
            LET expected == Replies(Lines(Got(c)))
            IN  /\ IsPrefix(wire[c], expected)
                /\ hpc[c] \in {"read", "done"} =>
                       /\ wire[c] = expected
                       /\ hist[c].acked = Len(wire[c])
                /\ hpc[c] = "write" =>
                       /\ sock[c].writing
                       /\ hist[c].acked = Len(wire[c]) - 1

\* two messages answered in order, the rest of the stream buffered
C1_Witness ==
    /\ NoQuit(stream["c1"])
    /\ hpc["c1"] = "read"
    /\ Len(wire["c1"]) = 2
    /\ wire["c1"][1] # wire["c1"][2]
    /\ buf["c1"].size = 2

\* C2: with k delimiters in the concatenation of the pushed data and no
\* other pop, the cuts that return a message return the first messages of
\* that concatenation in order, delimiter included, and a cut returns null
\* exactly when k messages have been returned.
C2_Framing ==
    ~rawPop =>
        LET msgs == Lines(pushed)
            k    == Len(msgs)
        IN  /\ Len(cuts) <= k
            /\ cuts = SubSeq(msgs, 1, Len(cuts))
            /\ cutMessage(dbuf).found <=> Len(cuts) < k
            /\ ret.called /\ ret.found => ret.msg = msgs[Len(cuts)]
            /\ ret.called /\ ~ret.found => Len(cuts) = k

\* data pushed in two calls or more, two messages cut, the third cut null
C2_Witness ==
    /\ ~rawPop
    /\ ret.called /\ ~ret.found
    /\ Len(cuts) = 2
    /\ dbuf.size > 0

\* C3, as stated: on a connection that got the end event with no error
\* recorded before it, soRead resolves at once with the empty sequence.
C3_EofUnlessErrorBeforeEnd ==
    \A c \in Conns :
        conn[c].ended /\ ~hist[c].errBeforeEnd =>
            /\ soRead(conn[c]).res = "resolve"
            /\ soRead(conn[c]).data = <<>>

\* C3, amended: on a connection that got the end event, soRead resolves at
\* once with the empty sequence, registers no reader and does not resume the
\* socket, unless an error is recorded when it is called; no read is ever
\* suspended on such a connection.
C3_EofContract ==
    \A c \in Conns :
        conn[c].ended =>
            /\ ~conn[c].reader
            /\ hpc[c] # "read"
            /\ conn[c].err = Null =>
                   /\ soRead(conn[c]).res = "resolve"
                   /\ soRead(conn[c]).data = <<>>
                   /\ soRead(conn[c]).conn = conn[c]
                   /\ ~soRead(conn[c]).resume

\* the end event came while the handler awaited a write, and the read the
\* handler issued afterwards returned the EOF value
C3_Witness ==
    /\ conn["c1"].ended
    /\ conn["c1"].err = Null
    /\ hist["c1"].eofReads = 1
    /\ hpc["c1"] = "done"
    /\ hist["c1"].acked >= 1

\* C4: once the socket has emitted an error, the connection holds that
\* error whatever events follow, no read is suspended on it, and soRead and
\* soWrite reject with it inside the call, without registering a reader,
\* resuming the socket or writing.
C4_ErrorLatch ==
    \A c \in Conns :
        hist[c].sockErr # Null /\ hpc[c] # "none" =>
            /\ conn[c].err = hist[c].sockErr
            /\ ~conn[c].reader
            /\ hpc[c] # "read"
            /\ soRead(conn[c]).res = "reject"
            /\ soRead(conn[c]).err = hist[c].sockErr
            /\ soRead(conn[c]).conn = conn[c]
            /\ ~soRead(conn[c]).resume
            /\ soWrite(conn[c]).res = "reject"
            /\ soWrite(conn[c]).err = hist[c].sockErr
            /\ ~soWrite(conn[c]).write

\* an error, then the end event, and an operation of the handler rejected
\* by the latch
C4_Witness ==
    /\ hist["c1"].sockErr # Null
    /\ conn["c1"].ended
    /\ hist["c1"].fastFails = 1
    /\ hpc["c1"] = "failed"

\* C5, as stated: a handler that has stopped, by returning or by throwing,
\* has its socket destroyed.
C5_SocketClosedOnExit ==
    \A c \in Conns : hpc[c] \in {"done", "failed"} => sock[c].destroyed

\* C6: a framed quit message is answered by a write of exactly Bye; the
\* socket is destroyed when the callback of that write reports success, not
\* before, and then at once.
C6_Quit ==
    \A c \in Conns :
        /\ IsPrefix(wire[c], Replies(Lines(Got(c))))
        /\ hpc[c] = "bye" =>
               /\ sock[c].writing
               /\ wire[c][Len(wire[c])] = Bye
               /\ hist[c].acked = Len(wire[c]) - 1
        /\ sock[c].destroyed =>
               /\ hist[c].destroyedAt \in 1..Len(wire[c])
               /\ wire[c][hist[c].destroyedAt] = Bye
               /\ hist[c].acked = hist[c].destroyedAt
        /\ \A i \in 1..hist[c].acked :
               wire[c][i] = Bye =>
                   sock[c].destroyed /\ hist[c].destroyedAt = i

\* a quit after another message: Bye written second, acknowledged, and the
\* socket destroyed
C6_Witness ==
    /\ sock["c1"].destroyed
    /\ hist["c1"].destroyedAt = 2
    /\ wire["c1"][2] = Bye
    /\ wire["c1"][1] # Bye

\* C7: a data event finds the socket resumed and leaves it paused unless the
\* handler's next soRead resumes it; a paused socket is resumed only by a
\* soRead that suspends; at most one chunk is delivered per resume; the
\* suspended soRead gets the delivered chunk as it is.
C7_Step ==
    \A c \in Conns :
        /\ hist'[c].sinceResume <= 1
        /\ sock'[c].pos > sock[c].pos =>
               /\ sock[c].flowing
               /\ sock'[c].flowing =>
                      conn'[c].reader /\ hist'[c].sinceResume = 0
               /\ conn[c].reader =>
                      reads'[c] = SubSeq(stream[c], sock[c].pos + 1, sock'[c].pos)
        /\ sock'[c].flowing /\ ~sock[c].flowing =>
               conn'[c].reader /\ hpc'[c] = "read"

C7_Backpressure == [][C7_Step]_vars

\* one chunk delivered, the handler awaiting a write, the socket paused
\* with bytes left to deliver
C7_Witness ==
    /\ hist["c1"].sinceResume = 1
    /\ ~sock["c1"].flowing
    /\ hpc["c1"] = "write"
    /\ sock["c1"].pos < Len(stream["c1"])
    /\ Len(reads["c1"]) > 2

\* the smallest capacity 32 * 2^j that holds n bytes
Caps == {MinCap, 2 * MinCap, 4 * MinCap, 8 * MinCap, 16 * MinCap, 32 * MinCap}
SmallestCap(n) == CHOOSE c \in Caps : c >= n /\ \A d \in Caps : d >= n => c <= d

\* C8, as stated: after one operation or more, 0 <= size <= capacity and
\* the capacity is the smallest 32 * 2^j that is at least the peak size.
C8_CapacityFromStart ==
    nops >= 1 =>
        /\ 0 <= dbuf.size /\ dbuf.size <= Len(dbuf.data)
        /\ Len(dbuf.data) = SmallestCap(peak)

C8_Inv ==
    /\ 0 <= dbuf.size /\ dbuf.size <= Len(dbuf.data)
    /\ Len(dbuf.data) = IF peak = 0 THEN 0 ELSE SmallestCap(peak)

\* C8, amended: 0 <= size <= capacity; the capacity is 0 as long as nothing
\* has been buffered and then the smallest 32 * 2^j that is at least the
\* peak size; it never decreases.
C8_BufferInvariant ==
    [](C8_Inv) /\ [][Len(dbuf'.data) >= Len(dbuf.data)]_vars

\* grown twice, then emptied below the first capacity
C8_Witness ==
    /\ Len(dbuf.data) = 4 * MinCap
    /\ dbuf.size < MinCap
    /\ rawPop

\* C9: after the server socket has emitted an error, the listener holds the
\* last such error and no accepter, the accept that was pending has failed
\* (main has ended), soAccept rejects with the recorded error without
\* registering, and a connection that arrives afterwards gets no handler.
C9_ListenerLatch ==
    /\ srvErr # Null =>
           /\ listener.err = srvErr
           /\ ~listener.accepter
           /\ mainpc = "fatal"
           /\ soAccept(listener).res = "reject"
           /\ soAccept(listener).err = srvErr
           /\ soAccept(listener).listener = listener
    /\ \A c \in Conns : hist[c].afterSrvErr => hpc[c] = "none"

\* one client served, the listener failed, the other client arrived after
C9_Witness ==
    /\ srvErr # Null
    /\ hpc["c1"] # "none"
    /\ sock["c2"].open
    /\ hist["c2"].afterSrvErr

\* C10: as long as the server socket has emitted no error an accept is
\* pending, whatever the handlers are doing, and every connection that
\* arrived before such an error has had its handler started.
C10_FireAndForget ==
    /\ srvErr = Null => listener.accepter /\ mainpc = "accept"
    /\ \A c \in Conns :
           sock[c].open /\ ~hist[c].afterSrvErr => hpc[c] # "none"

\* the first handler still suspended in its first read, the second client
\* accepted and served
C10_Witness ==
    /\ hpc["c1"] = "read"
    /\ sock["c1"].pos = 0
    /\ hpc["c2"] = "write"


\* C11: a call of cutMessage on a buffer whose used region [0, size) holds
\* no delimiter returns null and leaves size, capacity and every byte of the
\* buffer as they were, so that the next call finds the same buffer again.
NoDelimiter(b) == \A i \in 1..b.size : b.data[i] # NL

C11_Step ==
    (NoDelimiter(dbuf) /\ ret'.called /\ nops' # nops)
        => /\ ~ret'.found
           /\ ret'.msg = <<>>
           /\ dbuf' = dbuf
           /\ cuts' = cuts
           /\ NoDelimiter(dbuf')

C11_IdempotentDrain == [][C11_Step]_vars

\* a null return on a buffer that still holds bytes and has a delimiter left
\* over beyond its used region
C11_Witness ==
    /\ ret.called /\ ~ret.found
    /\ NoDelimiter(dbuf)
    /\ \E i \in (dbuf.size + 1)..Len(dbuf.data) : dbuf.data[i] = NL
    /\ dbuf.size > 0

\* C12: once the handler has written Bye and destroyed the socket it has
\* left its loop: it is not suspended in a soRead or a soWrite, and no
\* socket.write follows the one of Bye, whatever is buffered behind the quit.
C12_StopsAfterQuit ==
    \A c \in Conns :
        sock[c].destroyed
            => /\ hpc[c] \in {"done", "failed"}
               /\ Len(wire[c]) = hist[c].destroyedAt
               /\ ~conn[c].reader

\* C13: the reader slot of a connection is occupied exactly when one soRead
\* is registered and not yet settled (the handler is suspended in it); the
\* handler that settles a reader empties the slot in the same step, so the
\* number of registered, unsettled reads is 1 with the slot occupied and 0
\* otherwise, and never negative: no reader is settled twice.  The wrapper
\* made by the listener never has a reader.
C13_Inv ==
    \A c \in Conns :
        /\ conn[c].reader <=> hpc[c] = "read"
        /\ hist[c].waiting = IF conn[c].reader THEN 1 ELSE 0
        /\ ~lconn[c].reader

C13_Step ==
    \A c \in Conns :
        /\ hist'[c].waiting < hist[c].waiting
              => conn[c].reader /\ ~conn'[c].reader
        /\ (conn[c].reader /\ hpc'[c] # "read") => ~conn'[c].reader

C13_PendingReader == [](C13_Inv) /\ [][C13_Step]_vars

\* a reader was resolved by "data", the next one rejected by "error", and
\* "end" came afterwards with the slot empty
C13_Witness ==
    /\ hpc["c1"] = "failed"
    /\ hist["c1"].fastFails = 0
    /\ Len(reads["c1"]) > 0
    /\ sock["c1"].errd /\ sock["c1"].eof
    /\ conn["c1"].ended
    /\ ~conn["c1"].reader
    /\ hist["c1"].waiting = 0

\* C14: serveClient never calls soRead on a connection whose reader slot is
\* occupied or that has a write unacknowledged, and main never calls
\* soAccept with the accepter slot occupied; a connection never has a read
\* and a write waiting at once.
C14_OneOutstanding ==
    \A c \in Conns :
        /\ ~hist[c].overlap
        /\ ~hist[c].overwrote
        /\ ~(conn[c].reader /\ sock[c].writing)
        /\ sock[c].writing => hpc[c] \in {"write", "bye"}

\* both clients were accepted, a third soAccept waits, and one handler is in
\* its second soRead after an acknowledged write
C14_Witness ==
    /\ listener.accepter /\ mainpc = "accept"
    /\ \A c \in Conns : hpc[c] # "none"
    /\ hpc["c1"] = "read" /\ hist["c1"].acked >= 1
    /\ hpc["c2"] = "write"

\* what follows the last NL of a byte sequence
Rest(s) ==
    LET hits == {i \in 1..Len(s) : s[i] = NL}
    IN  IF hits = {} THEN s
        ELSE SubSeq(s, (CHOOSE i \in hits : \A j \in hits : j <= i) + 1, Len(s))

\* C15: whenever the handler is suspended in soRead, the used region of its
\* buffer holds no delimiter: it is the unterminated rest of the bytes
\* delivered, and every complete message delivered so far has been cut and
\* answered by an acknowledged write.
C15_FrameBeforeRead ==
    \A c \in Conns :
        hpc[c] = "read"
            => /\ NoDelimiter(buf[c])
               /\ SubSeq(buf[c].data, 1, buf[c].size) = Rest(Got(c))
               /\ Len(wire[c]) = Len(Lines(Got(c)))
               /\ hist[c].acked = Len(wire[c])

\* the last chunk brought two complete messages and the start of a third;
\* both were answered before the handler suspended again
C15_Witness ==
    /\ hpc["c1"] = "read"
    /\ Len(Lines(reads["c1"])) = 2
    /\ buf["c1"].size > 0
    /\ hist["c1"].acked = 2

\* C16: the socket event that follows the registration of a soRead settles
\* it: "data" resolves it with the chunk delivered, "end" sets ended and
\* resolves it with the empty sequence (the handler returns), "error"
\* records the error and rejects it (the handler fails).  With no read
\* pending, "end" and "error" change nothing but ended and err.
IsData(c) == sock'[c].pos > sock[c].pos
IsEnd(c) == sock'[c].eof /\ ~sock[c].eof
IsError(c) == sock'[c].errd /\ ~sock[c].errd

C16_Pending(c) ==
    /\ IsData(c) => /\ reads'[c] = SubSeq(stream[c], sock[c].pos + 1, sock'[c].pos)
                    /\ hist'[c].waiting = IF hpc'[c] = "read" THEN 1 ELSE 0
                    /\ conn'[c].err = Null /\ ~conn'[c].ended
    /\ IsEnd(c) => /\ conn'[c] = [conn[c] EXCEPT !.ended = TRUE, !.reader = FALSE]
                   /\ reads'[c] = <<>>
                   /\ hpc'[c] = "done"
                   /\ hist'[c].waiting = 0
    /\ IsError(c) => /\ conn'[c] = [conn[c] EXCEPT !.err = hist'[c].sockErr,
                                                   !.reader = FALSE]
                     /\ hist'[c].sockErr \in Errors
                     /\ hpc'[c] = "failed"
                     /\ hist'[c].waiting = 0

C16_Idle(c) ==
    /\ IsEnd(c) => conn'[c] = [conn[c] EXCEPT !.ended = TRUE]
    /\ IsError(c) => /\ conn'[c] = [conn[c] EXCEPT !.err = hist'[c].sockErr]
                     /\ hist'[c].sockErr \in Errors
    /\ (IsEnd(c) \/ IsError(c))
          => /\ hpc'[c] = hpc[c] /\ buf'[c] = buf[c]
             /\ wire'[c] = wire[c] /\ reads'[c] = reads[c]
             /\ hist'[c].waiting = hist[c].waiting
             /\ sock'[c].flowing = sock[c].flowing
             /\ sock'[c].writing = sock[c].writing

C16_Step ==
    \A c \in Conns :
        hpc[c] # "none"
            => IF conn[c].reader THEN C16_Pending(c) ELSE C16_Idle(c)

C16_FirstEventSettles == [][C16_Step]_vars

\* a read was resolved by "data" and answered, the next one resolved by
\* "end", and "error" came last, with no read pending
C16_Witness ==
    /\ hpc["c1"] = "done"
    /\ hist["c1"].acked >= 1
    /\ hist["c1"].eofReads = 0
    /\ conn["c1"].ended
    /\ conn["c1"].err # Null
    /\ ~hist["c1"].errBeforeEnd

\* C17: on a connection with a recorded error soRead and soWrite reject
\* with it and do nothing else: the socket is not resumed, nothing is
\* written, and reader, ended and err stay as they are; on an ended
\* connection soRead resolves without resuming the socket or registering a
\* reader.  Stated of the calls the connection's state allows, and of the
\* steps in which the handler makes such a call.
C17_Inv ==
    \A c \in Conns :
        /\ conn[c].err # Null
              => /\ soRead(conn[c]) =
                        [res |-> "reject", err |-> conn[c].err, data |-> <<>>,
                         conn |-> conn[c], resume |-> FALSE]
                 /\ soWrite(conn[c]) =
                        [res |-> "reject", err |-> conn[c].err, write |-> FALSE]
        /\ (conn[c].ended /\ conn[c].err = Null)
              => soRead(conn[c]) =
                     [res |-> "resolve", err |-> Null, data |-> <<>>,
                      conn |-> conn[c], resume |-> FALSE]

C17_Step ==
    \A c \in Conns :
        /\ hist'[c].fastFails > hist[c].fastFails
              => /\ conn[c].err # Null
                 /\ conn'[c] = conn[c]
                 /\ wire'[c] = wire[c]
                 /\ sock'[c].flowing = sock[c].flowing
                 /\ ~sock'[c].writing
                 /\ hist'[c].waiting = hist[c].waiting
                 /\ hpc'[c] = "failed"
        /\ hist'[c].eofReads > hist[c].eofReads
              => /\ conn[c].ended
                 /\ conn'[c] = conn[c]
                 /\ sock'[c].flowing = sock[c].flowing
                 /\ hist'[c].waiting = hist[c].waiting
                 /\ hpc'[c] = "done"

C17_FailFast == [](C17_Inv) /\ [][C17_Step]_vars

\* every message delivered was answered, an error arrived during the last
\* write, and the soRead that followed failed at once
C17_Witness ==
    /\ hpc["c1"] = "failed"
    /\ hist["c1"].fastFails = 1
    /\ hist["c1"].acked >= 1
    /\ hist["c1"].acked = Len(wire["c1"])
    /\ Len(wire["c1"]) = Len(Lines(Got("c1")))
    /\ ~conn["c1"].reader /\ ~sock["c1"].flowing

\* C18: the buffer is a FIFO queue of bytes: after any pushes and pops, also
\* across growth, its used region is everything pushed with the popped
\* prefix removed, and size is bytes pushed less bytes popped.
C18_Fifo ==
    /\ dbuf.size = Len(pushed) - popped
    /\ dbuf.size <= Len(dbuf.data)
    /\ SubSeq(dbuf.data, 1, dbuf.size) = SubSeq(pushed, popped + 1, Len(pushed))

\* bytes were popped by bufPop from a buffer that has grown beyond its first
\* allocation and still holds bytes from more than one push
C18_Witness ==
    /\ rawPop /\ popped >= 1
    /\ Len(dbuf.data) > MinCap
    /\ dbuf.size > MinCap + 1
    /\ Len(pushed) > dbuf.size
    /\ nops >= 4

\* C19 as stated: every connection the server has emitted has a handler.
C19_NoConnectionLost ==
    \A c \in Conns : sock[c].open => hpc[c] # "none"

\* C19, amended: a "connection" event on a listener that has recorded no
\* error finds an accept waiting, is delivered to it, and has its handler
\* started in the same step (it runs to its first soRead); the next accept is
\* registered before any other event is handled, so the connection that
\* follows is not lost either.
IsConnection(c) == sock'[c].open /\ ~sock[c].open

C19_Step ==
    \A c \in Conns :
        (IsConnection(c) /\ listener.err = Null)
            => /\ listener.accepter
               /\ hpc'[c] = "read"
               /\ conn'[c] = [soInit EXCEPT !.reader = TRUE]
               /\ sock'[c].flowing
               /\ listener'.accepter /\ listener'.err = Null
               /\ mainpc' = "accept"
               /\ ~hist'[c].overwrote

C19_DeliveredUnlessListenerFailed == [][C19_Step]_vars

\* the second connection arrived while the first handler was still serving;
\* both have handlers and a third accept waits
C19_Witness ==
    /\ srvErr = Null /\ listener.accepter
    /\ hpc["c1"] = "write"
    /\ hpc["c2"] = "read" /\ sock["c2"].pos = 0
    /\ ~hist["c2"].afterSrvErr

\* C20: with every write acknowledged or failed in the end, a handler whose
\* client sends no quit and whose socket has emitted "end" or "error" leaves
\* its loop (it returns after the empty read, or fails on a rejected read or
\* write), and a handler that has left its loop does not suspend again.
Signalled(c) ==
    /\ hpc[c] # "none"
    /\ NoQuit(stream[c])
    /\ sock[c].eof \/ sock[c].errd

Left(c) == hpc[c] \in {"done", "failed"}

C20_Terminates ==
    /\ Signalled("c1") ~> Left("c1")
    /\ [][Left("c1") => hpc'["c1"] = hpc["c1"]]_vars

\* "end" arrived while the handler awaited a write; after the
\* acknowledgement it read the EOF value and returned
C20_Witness ==
    /\ Signalled("c1")
    /\ hpc["c1"] = "done"
    /\ hist["c1"].eofReads = 1
    /\ hist["c1"].acked >= 1
    /\ ~sock["c1"].errd

=============================================================================
